---- MODULE Spec2Model ----
(***************************************************************************)
(* A model of the svp crate (machine regime, i64 / f64):                   *)
(*   algebra/vector.rs   inner product and pairwise Gauss reduction,       *)
(*   algebra/lattice.rs  the basis product  B * c  and gso(), whose f64    *)
(*                       values are exact rationals here,                  *)
(*   sample/klein.rs     sample(L) = L * coef with integer-valued coef,    *)
(*   sieve/gauss_sieve.rs  list-reduce and the main sieve loop.            *)
(*                                                                         *)
(* A Vector<i64> is a record [vec |-> sequence of integers, norm |-> the   *)
(* cached squared norm, None when it was never computed].  An assert! or   *)
(* unwrap() that fails moves pc to "abort".  Indices of the source are     *)
(* 0-based; where the model keeps a source index (index in list-reduce)    *)
(* it keeps the 0-based value and adds 1 when it reads a TLA+ sequence.    *)
(***************************************************************************)
EXTENDS Integers, Sequences, FiniteSets, TLC

VARIABLES
    b,        \* GaussSieve.b.basis: the rows are the basis vectors
    l,        \* GaussSieve.l: the list of sieved vectors
    s,        \* GaussSieve.s: the pending stack (top = last element)
    c,        \* sieve(): collision counter
    ml,       \* sieve(): largest list length seen at an iteration end
    min_norm, \* sieve(): smallest non-zero candidate norm seen
    v,        \* sieve(): the candidate of the last iteration, after reduce
    res,      \* sieve(): the returned vector, <<>> until it returns
    pc,       \* position of the program
    u,        \* pair-reduction harness: the vector being reduced (self)
    w,        \* pair-reduction harness: the vector reduced against
    w0,       \* pair-reduction harness: w as first given
    u0,       \* pair-reduction harness: u before the last call
    rets,     \* pair-reduction harness: what the calls so far returned
    coef,     \* basis-product harness: the coefficient vector
    prod,     \* basis-product harness: b * coef
    gs,       \* orthogonalization harness: what gso() returned, <<>> before
    inner,    \* inner-product harness: what the product returned
    idx       \* list-reduce harness: the local index of ListReduce::reduce

vars == <<b, l, s, c, ml, min_norm, v, res, pc, u, w, w0, u0, rets, coef, prod,
         gs, inner, idx>>

sieveVars == <<b, l, s, c, ml, min_norm, v, res>>
reduceVars == <<u, w, w0, u0, rets>>
mulVars == <<coef, prod>>
algVars == <<gs, inner, idx>>

----------------------------------------------------------------------------
(* Bounds of the model *)

\* sampled coefficients range over -CoefMax..CoefMax (sample_z's support is
\* the integers of [floor(c - s*t), ceil(c + s*t)])
CoefMax == 1

\* coordinates (-CoordMax..CoordMax) and dimension of the vectors given to
\* the pair-reduction harness, and the number of calls it makes
CoordMax == 2
VecDim == 2
MaxCalls == 3

----------------------------------------------------------------------------
(* algebra/vector.rs *)

Abs(x) == IF x < 0 THEN -x ELSE x

\* the element of a one-element set: { e(y) : y \in {d} } binds y to the
\* value of d, so that d is computed once wherever e uses it
Only(S) == CHOOSE y \in S : TRUE

RECURSIVE DotFrom(_, _, _)
DotFrom(x, y, i) ==
    IF i > Len(x) THEN 0 ELSE x[i] * y[i] + DotFrom(x, y, i + 1)

\* Mul for &Vector<i64>: the inner product of the coordinate sequences
Dot(x, y) == DotFrom(x, y, 1)

\* an assert! that lets two empty vectors through
DotOkAllowEmpty(x, y) == Len(x) = Len(y)

\* the assert! of the inner products: not empty, equal lengths
DotOk(x, y) == Len(x) # 0 /\ Len(x) = Len(y)

\* norm: None, ordered below every Some(norm) as Option's comparison does
None == -1

\* a vector with its norm field set to its squared length
MkVec(x) == [vec |-> x, norm |-> Dot(x, x)]

\* a quotient truncated toward zero instead of rounded
RoundTrunc(ip, n) ==
    IF ip >= 0 THEN ip \div n ELSE -((-ip) \div n)

\* (ip as f64 / n as f64).round() as i64: f64::round rounds half away from
\* zero; n > 0 wherever reduce calls it
Round(ip, n) ==
    IF ip >= 0 THEN (2 * ip + n) \div (2 * n)
               ELSE -((2 * (-ip) + n) \div (2 * n))

\* reduce with the non-strict test v.norm <= |2 * ip|
GaussReduceNonStrict(self, x) ==
    LET ip == Dot(self.vec, x.vec) IN
    IF x.norm <= Abs(2 * ip) /\ x.norm # 0
    THEN LET q  == Round(ip, x.norm)
             nv == [i \in 1..Len(self.vec) |-> self.vec[i] - q * x.vec[i]]
         IN [u |-> [vec |-> nv, norm |-> Dot(nv, nv)], ret |-> TRUE]
    ELSE [u |-> self, ret |-> FALSE]

\* reduce without line 172: self.norm keeps the norm of the old coordinates
GaussReduceStaleNorm(self, x) ==
    LET ip == Dot(self.vec, x.vec) IN
    IF x.norm < Abs(2 * ip)
    THEN LET q  == Round(ip, x.norm)
             nv == [i \in 1..Len(self.vec) |-> self.vec[i] - q * x.vec[i]]
         IN [u |-> [vec |-> nv, norm |-> self.norm], ret |-> TRUE]
    ELSE [u |-> self, ret |-> FALSE]

\* GaussReduce::reduce(&mut self, v): the new self and the returned bool
GaussReduce(self, x) ==
    LET ip == Dot(self.vec, x.vec) IN
    IF x.norm < Abs(2 * ip)
    THEN LET q  == Round(ip, x.norm)
             nv == [i \in 1..Len(self.vec) |-> self.vec[i] - q * x.vec[i]]
         IN [u |-> [vec |-> nv, norm |-> Dot(nv, nv)], ret |-> TRUE]
    ELSE [u |-> self, ret |-> FALSE]

----------------------------------------------------------------------------
(* algebra/lattice.rs *)

\* the product with its loop started at 1, as the loop of the inner product
\* is: res.vec[0] keeps the 0 it was built with
LatMulSkipFirst(B, x) ==
    LET r == [i \in 1..Len(B) |-> IF i = 1 THEN 0 ELSE Dot(B[i].vec, x)]
    IN [vec |-> r, norm |-> Dot(r, r)]

\* Mul<&Vector<i64>> for &Lattice<i64>: res.vec[i] = &basis[i] * rhs, then
\* res.norm = res * res
LatMul(B, x) ==
    LET r == [i \in 1..Len(B) |-> Dot(B[i].vec, x)]
    IN [vec |-> r, norm |-> Dot(r, r)]

----------------------------------------------------------------------------
(* sieve/gauss_sieve.rs: ListReduce::reduce *)

\* Vec::insert(i, x) and Vec::remove(i) with the source's 0-based i
\* &Lattice<i64> * &Vector<i64> returns: assert_eq! and the asserts of the
\* inner products it takes hold
MulOk(B, x) ==
    /\ Len(B) = Len(x)
    /\ \A i \in 1..Len(B) : DotOk(B[i].vec, x)
    /\ Len(x) # 0

InsertAt(q, i, x) == SubSeq(q, 1, i) \o <<x>> \o SubSeq(q, i + 1, Len(q))
RemoveAt(q, i) == SubSeq(q, 1, i) \o SubSeq(q, i + 2, Len(q))

\* one pass of `for i in 0..self.l.len()` (lines 74-82) from 0-based i on:
\* break with index = i at the first l[i].norm > v.norm, else v.reduce(l[i])
RECURSIVE ScanPass(_, _, _, _, _)
ScanPass(lst, x, i, index, reduced) ==
    IF i >= Len(lst) THEN [v |-> x, index |-> index, reduced |-> reduced]
    ELSE IF lst[i + 1].norm > x.norm
         THEN [v |-> x, index |-> i, reduced |-> reduced]
         ELSE Only({ ScanPass(lst, r.u, i + 1, index, reduced \/ r.ret) :
                     r \in {GaussReduce(x, lst[i + 1])} })

\* `while reduced` (lines 70-83): passes are repeated until one reduces nothing
RECURSIVE Scan(_, _, _)
Scan(lst, x, index) ==
    Only({ IF p.reduced THEN Scan(lst, p.v, p.index) ELSE p :
           p \in {ScanPass(lst, x, 0, index, FALSE)} })

\* the tail loop without self.l.remove(index): the reduced element is pushed
\* on s and stays in l
RECURSIVE TailReduceKeep(_, _, _, _)
TailReduceKeep(lst, stk, x, index) ==
    IF index >= Len(lst) THEN [l |-> lst, s |-> stk]
    ELSE Only({ IF r.ret
                THEN TailReduceKeep([lst EXCEPT ![index + 1] = r.u],
                                    Append(stk, r.u), x, index + 1)
                ELSE TailReduceKeep(lst, stk, x, index + 1) :
                r \in {GaussReduce(lst[index + 1], x)} })

\* `while index < self.l.len()` (lines 88-95): l[index].reduce(v); a reduced
\* element is pushed on s and removed from l
RECURSIVE TailReduce(_, _, _, _)
TailReduce(lst, stk, x, index) ==
    IF index >= Len(lst) THEN [l |-> lst, s |-> stk]
    ELSE Only({ IF r.ret
                THEN TailReduce(RemoveAt(lst, index), Append(stk, r.u), x, index)
                ELSE TailReduce(lst, stk, x, index + 1) :
                r \in {GaussReduce(lst[index + 1], x)} })

\* ListReduce::reduce(&mut self, v): the new l, s and v
ListReduce(lst, stk, x) ==
    Only({ IF p.v.norm # 0
           THEN Only({ [l |-> t.l, s |-> t.s, v |-> p.v] :
                       t \in {TailReduce(InsertAt(lst, p.index, p.v), stk, p.v, p.index + 1)} })
           ELSE [l |-> lst, s |-> stk, v |-> p.v] :
           p \in {Scan(lst, x, 0)} })

----------------------------------------------------------------------------
(* sample/klein.rs *)

\* the coefficient vectors sample() can pass to l * &coef: every entry is a
\* value returned by sample_z, min + round((max - min) * deviate), an integer
\* line 85: v.norm.as_ref().unwrap() finds None after the scan
ReduceAborts(lst, x) == \E p \in {Scan(lst, x, 0)} : p.v.norm = None

CoefBox(m) == [1..m -> (-CoefMax)..CoefMax]

\* Sample::sample = l * &coef (Mul<&Vector<f64>>): each coordinate
\* (&basis[i] * coef) as i64 is exact on integer-valued coef
Sample(B, cf) == LatMul(B, cf)

----------------------------------------------------------------------------
(* sieve/gauss_sieve.rs: Sieve::sieve *)

\* the loop condition c < ml * 0.1 + 200.0, scaled by CollisionScale
CollisionBase == 200
CollisionScale == 10
Continue(cc, mm) == CollisionScale * cc < mm + CollisionScale * CollisionBase

\* res.sort_by(norm): a stable sort, written as insertion after the last
\* element whose norm is not larger
RECURSIVE InsertByNorm(_, _)
InsertByNorm(q, x) ==
    IF q = <<>> THEN <<x>>
    ELSE IF q[Len(q)].norm <= x.norm THEN Append(q, x)
         ELSE Append(InsertByNorm(SubSeq(q, 1, Len(q) - 1), x), q[Len(q)])

RECURSIVE SortFrom(_, _, _)
SortFrom(q, i, acc) ==
    IF i > Len(q) THEN acc
    ELSE Only({ SortFrom(q, i + 1, a) : a \in {InsertByNorm(acc, q[i])} })

\* no sort at all
SortNone(q) == q

SortByNorm(q) == SortFrom(q, 1, <<>>)

\* lines 124-126: res[i] = &self.b * l[i], then sorted by norm
Materialize(B, lst) == SortByNorm([i \in 1..Len(lst) |-> LatMul(B, lst[i].vec)])

\* the rest of a loop iteration once v is chosen (lines 114-122)
\* an iteration that counts every candidate as a collision
IterateCountAll(cand, stk) ==
    \E r \in {ListReduce(l, stk, cand)} :
       /\ l' = r.l
       /\ s' = r.s
       /\ v' = r.v
       /\ c' = c + 1
       /\ min_norm' = IF r.v.norm # 0 /\ r.v.norm < min_norm
                      THEN r.v.norm ELSE min_norm
       /\ ml' = IF Len(r.l) > ml THEN Len(r.l) ELSE ml

\* lines 111-122: reduce the candidate, then update c, min_norm and ml
Iterate(cand, stk) ==
    \E r \in {ListReduce(l, stk, cand)} :
       /\ l' = r.l
       /\ s' = r.s
       /\ v' = r.v
       /\ c' = IF r.v.norm = 0 THEN c + 1 ELSE c
       /\ min_norm' = IF r.v.norm # 0 /\ r.v.norm < min_norm
                      THEN r.v.norm ELSE min_norm
       /\ ml' = IF Len(r.l) > ml THEN Len(r.l) ELSE ml

NoVec == [vec |-> <<>>, norm |-> 0]

\* no inner product returned yet
NoIp == [ok |-> FALSE, val |-> 0]

\* gsieve![l, t]: s = basis.clone(), l = vec![]
SieveInit(B) ==
    /\ b = B
    /\ l = <<>>
    /\ s = B
    /\ c = 0 /\ ml = 0 /\ min_norm = 0
    /\ v = NoVec
    /\ res = <<>>
    /\ pc = "new"

\* lines 106-108: the locals of sieve()
SieveEnter ==
    /\ pc = "new"
    /\ c' = 0
    /\ ml' = Len(l)
    /\ min_norm' = b[1].norm
    /\ pc' = "loop"
    /\ UNCHANGED <<b, l, s, v, res, reduceVars, mulVars, algVars>>

\* an iteration whose candidate is popped from s
PopStep ==
    /\ pc = "loop"
    /\ Continue(c, ml)
    /\ s # <<>>
    /\ IF ReduceAborts(l, s[Len(s)])
       THEN /\ s' = SubSeq(s, 1, Len(s) - 1)
            /\ v' = s[Len(s)]
            /\ pc' = "abort"
            /\ UNCHANGED <<l, c, ml, min_norm>>
       ELSE /\ Iterate(s[Len(s)], SubSeq(s, 1, Len(s) - 1))
            /\ pc' = pc
    /\ UNCHANGED <<b, res, reduceVars, mulVars, algVars>>

\* an iteration whose candidate is sampled
SampleStep ==
    /\ pc = "loop"
    /\ Continue(c, ml)
    /\ s = <<>>
    /\ \E cf \in CoefBox(Len(b)) :
          IF MulOk(b, cf)
          THEN Iterate(Sample(b, cf), s) /\ pc' = pc
          ELSE pc' = "abort" /\ UNCHANGED <<l, s, c, ml, min_norm, v>>
    /\ UNCHANGED <<b, res, reduceVars, mulVars, algVars>>

\* the loop exit and lines 124-126
SieveReturn ==
    /\ pc = "loop"
    /\ ~Continue(c, ml)
    /\ IF \A i \in 1..Len(l) : MulOk(b, l[i].vec)
       THEN res' = Materialize(b, l) /\ pc' = "done"
       ELSE res' = res /\ pc' = "abort"
    /\ UNCHANGED <<b, l, s, c, ml, min_norm, v, reduceVars, mulVars, algVars>>

SieveNext == SieveEnter \/ PopStep \/ SampleStep \/ SieveReturn

HarnessIdle ==
    /\ u = NoVec /\ w = NoVec /\ w0 = NoVec /\ u0 = NoVec
    /\ rets = <<>>
    /\ coef = <<>> /\ prod = NoVec
    /\ gs = <<>> /\ inner = NoIp /\ idx = 0

\* a basis with norms populated, as the tests build it
Basis(rows) == [i \in 1..Len(rows) |-> MkVec(rows[i])]

\* a basis as nvec! builds it: no norm computed
BasisRaw(rows) == [i \in 1..Len(rows) |-> [vec |-> rows[i], norm |-> None]]

Identity3 == Basis(<< <<1, 0, 0>>, <<0, 1, 0>>, <<0, 0, 1>> >>)
B110 == Basis(<< <<1, 1, 0>>, <<1, 2, 0>>, <<0, 1, 2>> >>)

Bases2 == { Basis(<< <<1, 0>>, <<0, 1>> >>),
            Basis(<< <<0, 2>>, <<1, 0>> >>),
            Basis(<< <<1, 1>>, <<0, 2>> >>),
            Basis(<< <<2, 1>>, <<1, 2>> >>) }

Init == (\E B \in Bases2 : SieveInit(B)) /\ HarnessIdle
Spec == Init /\ [][SieveNext]_vars

InitIdentity == SieveInit(Identity3) /\ HarnessIdle
SpecIdentity == InitIdentity /\ [][SieveNext]_vars

InitB110 == SieveInit(B110) /\ HarnessIdle
SpecB110 == InitB110 /\ [][SieveNext]_vars

----------------------------------------------------------------------------
(* Harness for GaussReduce::reduce: u.reduce(&w) called repeatedly *)

SieveIdle ==
    /\ l = <<>> /\ s = <<>>
    /\ c = 0 /\ ml = 0 /\ min_norm = 0
    /\ v = NoVec /\ res = <<>>

Vectors(n) == { MkVec(x) : x \in [1..n -> (-CoordMax)..CoordMax] }

InitReduce ==
    /\ b = <<>> /\ SieveIdle
    /\ pc = "reduce"
    /\ u \in Vectors(VecDim)
    /\ w \in Vectors(VecDim)
    /\ w0 = w
    /\ u0 = u
    /\ rets = <<>>
    /\ coef = <<>> /\ prod = NoVec
    /\ gs = <<>> /\ inner = NoIp /\ idx = 0

\* one call u.reduce(&w): w is borrowed immutably
ReduceCall ==
    /\ pc = "reduce"
    /\ Len(rets) < MaxCalls
    /\ LET r == GaussReduce(u, w)
       IN /\ u' = r.u
          /\ rets' = Append(rets, r.ret)
    /\ u0' = u
    /\ UNCHANGED <<sieveVars, pc, w, w0, mulVars, algVars>>

SpecReduce == InitReduce /\ [][ReduceCall]_vars

----------------------------------------------------------------------------
(* Harness for the basis product &b * &coef *)

B111 == Basis(<< <<1, -1, 1>>, <<1, 0, 1>>, <<1, 1, 2>> >>)

MulBases == Bases2 \cup {Identity3, B110, B111}

InitMul ==
    /\ b \in MulBases /\ SieveIdle
    /\ pc = "mul"
    /\ u = NoVec /\ w = NoVec /\ w0 = NoVec /\ u0 = NoVec
    /\ rets = <<>>
    /\ coef = <<>> /\ prod = NoVec
    /\ gs = <<>> /\ inner = NoIp /\ idx = 0

MulCall ==
    /\ pc = "mul"
    /\ \E cf \in CoefBox(Len(b)) :
          /\ coef' = cf
          /\ prod' = LatMul(b, cf)
    /\ UNCHANGED <<sieveVars, pc, reduceVars, algVars>>

SpecMul == InitMul /\ [][MulCall]_vars

----------------------------------------------------------------------------
(* The f64 values of gso() as exact rationals n/d, d > 0, in lowest terms *)

RECURSIVE Gcd(_, _)
Gcd(x, y) == IF y = 0 THEN x ELSE Gcd(y, x % y)

Rat(n, d) ==
    LET g  == Gcd(Abs(n), Abs(d))
        sg == IF d < 0 THEN -1 ELSE 1
    IN [n |-> sg * (n \div g), d |-> sg * (d \div g)]

\* z as f64
RInt(k) == [n |-> k, d |-> 1]

RAdd(x, y) == Rat(x.n * y.d + y.n * x.d, x.d * y.d)
RSub(x, y) == Rat(x.n * y.d - y.n * x.d, x.d * y.d)
RMul(x, y) == Rat(x.n * y.n, x.d * y.d)
RDiv(x, y) == Rat(x.n * y.d, x.d * y.n)

ToF64(x) == [k \in 1..Len(x) |-> RInt(x[k])]

RECURSIVE RDotFrom(_, _, _)
RDotFrom(x, y, i) ==
    IF i > Len(x) THEN RInt(0)
    ELSE RAdd(RMul(x[i], y[i]), RDotFrom(x, y, i + 1))

\* &Vector<f64> * &Vector<f64>
RDot(x, y) == RDotFrom(x, y, 1)

\* &Vector<i64> * &Vector<f64>
MixDot(x, y) == RDot(ToF64(x), y)

----------------------------------------------------------------------------
(* Lattice<i64>::gso(); i and j are the code's 0-based loop variables *)

\* the first loop: every basis vector and its norm as f64; this norm is
\* overwritten (line 82) before any read of it
GsoInit(B) ==
    [i \in 1..Len(B) |-> [vec |-> ToF64(B[i].vec), norm |-> RInt(B[i].norm)]]

\* the loop over j that divides by the norm of the basis vector
RECURSIVE GsoRowBasisNorm(_, _, _, _)
GsoRowBasisNorm(B, g, i, j) ==
    IF j >= i THEN g
    ELSE Only({ GsoRowBasisNorm(B,
                  [g EXCEPT ![i + 1].vec =
                      [k \in 1..Len(g[i + 1].vec) |->
                          IF k <= Len(B)
                          THEN RSub(g[i + 1].vec[k], RMul(mu, g[j + 1].vec[k]))
                          ELSE g[i + 1].vec[k]]],
                  i, j + 1) :
                mu \in {RDiv(MixDot(B[j + 1].vec, g[i + 1].vec),
                             RInt(B[j + 1].norm))} })

\* the loop over j of row i: mu[i][j] = (basis[j] * gs[i]) / gs[j].norm, then
\* gs[i].vec[k] -= mu[i][j] * gs[j].vec[k] for k in 0..basis.len()
RECURSIVE GsoRow(_, _, _, _)
GsoRow(B, g, i, j) ==
    IF j >= i THEN g
    ELSE Only({ GsoRow(B,
                  [g EXCEPT ![i + 1].vec =
                      [k \in 1..Len(g[i + 1].vec) |->
                          IF k <= Len(B)
                          THEN RSub(g[i + 1].vec[k], RMul(mu, g[j + 1].vec[k]))
                          ELSE g[i + 1].vec[k]]],
                  i, j + 1) :
                mu \in {RDiv(MixDot(B[j + 1].vec, g[i + 1].vec),
                             g[j + 1].norm)} })

\* the loop over i, each row closed by gs[i].norm = Some(&gs[i] * &gs[i])
RECURSIVE GsoFrom(_, _, _)
GsoFrom(B, g, i) ==
    IF i >= Len(B) THEN g
    ELSE Only({ GsoFrom(B,
                  [r EXCEPT ![i + 1].norm = RDot(r[i + 1].vec, r[i + 1].vec)],
                  i + 1) :
                r \in {GsoRow(B, g, i, 0)} })

Gso(B) == GsoFrom(B, GsoInit(B), 0)

----------------------------------------------------------------------------
(* Harness for gso(): one call on a full-rank basis *)

GsoCoordMax == 1

GsoShapes == { <<2, 2>>, <<2, 3>> }

GsoVectors(n) == { MkVec(x) : x \in [1..n -> (-GsoCoordMax)..GsoCoordMax] }

\* two vectors are independent when their Gram determinant is not 0
Independent(x, y) == x.norm * y.norm # Dot(x.vec, y.vec) * Dot(x.vec, y.vec)

GsoBases ==
    {Identity3, B110, B111} \cup
    UNION { { <<x, y>> : x \in GsoVectors(sh[2]), y \in GsoVectors(sh[2]) } :
            sh \in GsoShapes }

InitGso ==
    /\ b \in GsoBases
    /\ Len(b) = 2 => Independent(b[1], b[2])
    /\ SieveIdle
    /\ pc = "gso"
    /\ u = NoVec /\ w = NoVec /\ w0 = NoVec /\ u0 = NoVec
    /\ rets = <<>>
    /\ coef = <<>> /\ prod = NoVec
    /\ gs = <<>> /\ inner = NoIp /\ idx = 0

GsoCall ==
    /\ pc = "gso"
    /\ gs = <<>>
    /\ gs' = Gso(b)
    /\ UNCHANGED <<sieveVars, pc, reduceVars, mulVars, inner, idx>>

SpecGso == InitGso /\ [][GsoCall]_vars

----------------------------------------------------------------------------
(* KleinSampler<f64>: sample_z and sample, and the product &Lattice * &coef *)

Floor(x) == x.n \div x.d
Ceil(x) == -((-x.n) \div x.d)

\* x as i64: towards zero
Trunc(x) == IF x.n >= 0 THEN x.n \div x.d ELSE -((-x.n) \div x.d)

\* sample_z without the floor() of min: the values are c - s*t + k
SampleZNoFloor(cc) ==
    { RAdd(RSub(cc, RInt(CoefMax)), RInt(k)) : k \in 0..(2 * CoefMax) }

\* sample_z(c, s2): x = min + round((max - min) * deviate) with
\* min = floor(c - s*t), max = ceil(c + s*t); the radius s*t of the
\* rejection window is the bound CoefMax
SampleZ(cc) ==
    { RInt(x) : x \in Floor(RSub(cc, RInt(CoefMax)))..Ceil(RAdd(cc, RInt(CoefMax))) }

\* sample(): the loop for i in (0..len).rev(), i 0-based; all outcomes
RECURSIVE SampleCoefs(_, _, _)
SampleCoefs(g, cf, i) ==
    IF i < 0 THEN {cf}
    ELSE UNION { SampleCoefs(g,
                   [j \in 1..Len(cf) |->
                       IF j = i + 1 THEN x
                       ELSE IF j <= i THEN RSub(cf[j], RMul(x, g[i + 1].vec[j]))
                       ELSE cf[j]],
                   i - 1) :
                 x \in SampleZ(cf[i + 1]) }

\* &Lattice<i64> * &Vector<f64> returns: assert_eq! and the asserts of the
\* inner products it takes hold
MulFOk(B, cf) ==
    /\ Len(B) = Len(cf)
    /\ \A i \in 1..Len(B) : DotOk(B[i].vec, cf)
    /\ Len(cf) # 0

\* &Lattice<i64> * &Vector<f64>
LatMulF(B, cf) ==
    LET r == [i \in 1..Len(B) |-> Trunc(MixDot(B[i].vec, cf))]
    IN [vec |-> r, norm |-> Dot(r, r)]

----------------------------------------------------------------------------
(* Harness for KleinSampler::sample on gsieve's sampler k *)

Rect23 == Basis(<< <<1, 0, 1>>, <<1, 1, 0>> >>)

SampleBases == MulBases \cup {Rect23}

InitSample ==
    /\ b \in SampleBases
    /\ SieveIdle
    /\ pc = "sample"
    /\ u = NoVec /\ w = NoVec /\ w0 = NoVec /\ u0 = NoVec
    /\ rets = <<>>
    /\ coef = <<>> /\ prod = NoVec
    /\ gs = Gso(b) /\ inner = NoIp /\ idx = 0

SampleCall ==
    /\ pc = "sample"
    /\ \E cf \in SampleCoefs(gs, [j \in 1..Len(gs) |-> RInt(0)], Len(gs) - 1) :
          /\ coef' = cf
          /\ IF MulFOk(b, cf)
             THEN prod' = LatMulF(b, cf) /\ pc' = pc
             ELSE prod' = prod /\ pc' = "abort"
    /\ UNCHANGED <<sieveVars, reduceVars, algVars>>

SpecSample == InitSample /\ [][SampleCall]_vars

----------------------------------------------------------------------------
(* The sieve on every basis a caller can hand to gsieve!: norms computed or
   not, as many vectors as coordinates or fewer *)

AnyBases ==
    Bases2 \cup {Rect23}
           \cup { BasisRaw(Rows2) : Rows2 \in { << <<1, 0>>, <<0, 1>> >>,
                                                << <<2, 1>>, <<1, 2>> >> } }
           \cup { << MkVec(<<1, 0>>), [vec |-> <<0, 1>>, norm |-> None] >>,
                  << [vec |-> <<1, 0>>, norm |-> None], MkVec(<<0, 1>>) >> }

InitAny == (\E B \in AnyBases : SieveInit(B)) /\ HarnessIdle
SpecAny == InitAny /\ [][SieveNext]_vars

----------------------------------------------------------------------------
(* One call of the inner product or of the basis product on operands of any
   length, next to the sieve on every basis *)

OpLenMax == 2

OpVectors ==
    UNION { { [vec |-> x, norm |-> None] : x \in [1..k -> (-CoefMax)..CoefMax] } :
            k \in 0..OpLenMax }

OpCoefs == UNION { CoefBox(k) : k \in 0..(OpLenMax + 1) }

InitOps ==
    /\ SieveIdle
    /\ w0 = NoVec /\ u0 = NoVec /\ rets = <<>>
    /\ gs = <<>> /\ inner = NoIp /\ idx = 0 /\ prod = NoVec
    /\ \/ /\ pc = "dot"
          /\ b = <<>> /\ coef = <<>>
          /\ u \in OpVectors /\ w \in OpVectors
       \/ /\ pc = "bmul"
          /\ b \in Bases2 \cup {Rect23}
          /\ coef \in OpCoefs
          /\ u = NoVec /\ w = NoVec

\* &u * &w
DotCall ==
    /\ pc = "dot"
    /\ IF DotOk(u.vec, w.vec)
       THEN inner' = [ok |-> TRUE, val |-> Dot(u.vec, w.vec)] /\ pc' = "dot_ret"
       ELSE inner' = inner /\ pc' = "abort"
    /\ UNCHANGED <<sieveVars, reduceVars, mulVars, gs, idx>>

\* &b * &coef
BMulCall ==
    /\ pc = "bmul"
    /\ IF MulOk(b, coef)
       THEN prod' = LatMul(b, coef) /\ pc' = "mul_ret"
       ELSE prod' = prod /\ pc' = "abort"
    /\ UNCHANGED <<sieveVars, reduceVars, coef, algVars>>

----------------------------------------------------------------------------
(* ListReduce::reduce step by step: one pass of the scan, the test of line
   85 with the insertion, one element of the tail loop *)

ListLens == {0, 1, 2}

ListElems == { x \in GsoVectors(2) : x.norm # 0 }

Lists == UNION { [1..k -> ListElems] : k \in ListLens }

InitList ==
    /\ b = <<>>
    /\ l \in Lists
    /\ s = <<>>
    /\ v \in Vectors(2)
    /\ c = 0 /\ ml = 0 /\ min_norm = 0
    /\ res = <<>>
    /\ pc = "scan"
    /\ HarnessIdle

\* lines 73-83: one execution of the body of `while reduced`
ScanStep ==
    /\ pc = "scan"
    /\ \E p \in {ScanPass(l, v, 0, idx, FALSE)} :
          /\ v' = p.v
          /\ idx' = p.index
          /\ pc' = IF p.reduced THEN "scan" ELSE "check"
    /\ UNCHANGED <<b, l, s, c, ml, min_norm, res, reduceVars, mulVars, gs, inner>>

\* lines 85-87: a non-zero v is inserted at index
CheckStep ==
    /\ pc = "check"
    /\ IF v.norm # 0
       THEN l' = InsertAt(l, idx, v) /\ idx' = idx + 1 /\ pc' = "tail"
       ELSE l' = l /\ idx' = idx /\ pc' = "ret"
    /\ UNCHANGED <<b, s, c, ml, min_norm, v, res, reduceVars, mulVars, gs, inner>>

\* lines 88-95: one execution of the body of `while index < self.l.len()`
TailStep ==
    /\ pc = "tail"
    /\ idx < Len(l)
    /\ \E r \in {GaussReduce(l[idx + 1], v)} :
          IF r.ret
          THEN s' = Append(s, r.u) /\ l' = RemoveAt(l, idx) /\ idx' = idx
          ELSE s' = s /\ l' = l /\ idx' = idx + 1
    /\ UNCHANGED <<b, c, ml, min_norm, v, res, pc, reduceVars, mulVars, gs, inner>>

\* the exit of the tail loop
TailExit ==
    /\ pc = "tail"
    /\ idx >= Len(l)
    /\ pc' = "ret"
    /\ UNCHANGED <<sieveVars, reduceVars, mulVars, algVars>>

SpecList == InitList /\ [][ScanStep \/ CheckStep \/ TailStep \/ TailExit]_vars

SpecOps == (InitAny \/ InitOps) /\ [][SieveNext \/ DotCall \/ BMulCall]_vars

----------------------------------------------------------------------------
(* Notions the claims are stated with *)

Min(x, y) == IF x < y THEN x ELSE y

\* no element of q is Gauss-reducible by another: the 60 degree property
PairReduced(q) ==
    \A i, j \in 1..Len(q) :
        i # j => 2 * Abs(Dot(q[i].vec, q[j].vec)) <= Min(q[i].norm, q[j].norm)

\* ascending order of norm
SortedByNorm(q) == \A i \in 1..(Len(q) - 1) : q[i].norm <= q[i + 1].norm

\* the determinant of a square matrix given as a sequence of rows (Laplace
\* expansion along the first row)
RECURSIVE Det(_)
RECURSIVE DetSum(_, _)
Minor(M, k) ==
    [i \in 1..(Len(M) - 1) |->
        [j \in 1..(Len(M) - 1) |-> M[i + 1][IF j < k THEN j ELSE j + 1]]]
DetSum(M, k) ==
    IF k > Len(M) THEN 0
    ELSE (IF k % 2 = 1 THEN 1 ELSE -1) * M[1][k] * Det(Minor(M, k)) + DetSum(M, k + 1)
Det(M) == IF Len(M) = 1 THEN M[1][1] ELSE DetSum(M, 1)

Rows(B) == [i \in 1..Len(B) |-> B[i].vec]

\* x is an integer combination of the basis vectors B[1], ..., B[m] (B square
\* and of full rank): by Cramer's rule the coefficient of B[j] is
\* Det(B with row j replaced by x) / Det(B)
InLattice(B, x) ==
    \A j \in 1..Len(B) :
        Det([Rows(B) EXCEPT ![j] = x]) % Abs(Det(Rows(B))) = 0

\* coordinate i of cf[j] * B[j] + ... + cf[m] * B[m]
RECURSIVE CombCoord(_, _, _, _)
CombCoord(B, cf, i, j) ==
    IF j > Len(B) THEN 0 ELSE B[j].vec[i] * cf[j] + CombCoord(B, cf, i, j + 1)

----------------------------------------------------------------------------
(* The claims *)

\* C1: after every return of list-reduce, no element of l can be
\* Gauss-reduced by another element of l (2|<u,w>| <= min(u.norm, w.norm)
\* for every pair of distinct elements).
C1_ListPairReduced == PairReduced(l)

\* C2: after every return of list-reduce, l is in ascending order of norm.
C2_ListSorted == SortedByNorm(l)

\* C3: whenever sieve() returns, res is sorted ascending by squared norm.
C3_ResultSorted == pc = "done" => SortedByNorm(res)

\* sieve() has returned at least two vectors whose order before the sort was
\* not ascending
C3_Witness ==
    /\ pc = "done"
    /\ Len(res) >= 2
    /\ ~SortedByNorm([i \in 1..Len(l) |-> LatMul(b, l[i].vec)])

\* C4: whenever sieve() returns, every entry of res is a nonzero integer
\* combination of the basis vectors and the entries of res are pairwise
\* Gauss-reduced.
C4_ResultReducedLattice ==
    pc = "done" =>
        /\ \A i \in 1..Len(res) : res[i].norm # 0 /\ InLattice(b, res[i].vec)
        /\ PairReduced(res)

\* C5: after every sieve step, each element of l is a nonzero vector of the
\* lattice generated by the basis vectors.
C5_ListInLattice ==
    \A i \in 1..Len(l) : l[i].norm # 0 /\ InLattice(b, l[i].vec)

\* C6: for the 3-dimensional identity basis, every sieve() that returns,
\* returns res with res[0].norm = 1 = basis[0].norm.
C6_IdentityShortest ==
    pc = "done" => Len(res) >= 1 /\ res[1].norm = 1 /\ res[1].norm = b[1].norm

\* sieve() has returned on the identity basis after sampling, with the three
\* unit vectors in res
C6_Witness ==
    /\ pc = "done"
    /\ b = Identity3
    /\ Len(res) = 3
    /\ c >= CollisionBase

\* C7: for the basis [[1,1,0],[1,2,0],[0,1,2]], every sieve() that returns,
\* returns res with res[0].norm = 1.
C7_B110Shortest == pc = "done" => Len(res) >= 1 /\ res[1].norm = 1

\* C8: a call u.reduce(w) with ip = <u,w>: if w.norm < |2 ip| it replaces u
\* by u - q w for q a nearest integer to ip / w.norm, refreshes u.norm and
\* returns true; otherwise it returns false and leaves u as it was.  w is
\* never modified.
C8_PairReduction ==
    pc = "reduce" /\ rets # <<>> =>
        LET ip == Dot(u0.vec, w.vec) IN
        /\ w = w0
        /\ IF w.norm < Abs(2 * ip)
           THEN /\ rets[Len(rets)] = TRUE
                /\ \E q \in (-(Abs(ip) + 1))..(Abs(ip) + 1) :
                      /\ 2 * Abs(ip - q * w.norm) <= w.norm
                      /\ u.vec = [i \in 1..Len(u0.vec) |-> u0.vec[i] - q * w.vec[i]]
                /\ u.norm = Dot(u.vec, u.vec)
           ELSE /\ rets[Len(rets)] = FALSE
                /\ u = u0

\* a call has reduced u, from an inner product beyond w.norm
C8_Witness ==
    /\ pc = "reduce"
    /\ rets = <<TRUE>>
    /\ u.vec # u0.vec
    /\ Abs(Dot(u0.vec, w.vec)) > w.norm

\* C9: iterating u.reduce(w) reaches a call that returns false (the second
\* call at the latest); there 2|<u,w>| <= w.norm, and every further call
\* returns false and changes nothing.
C9_ReduceFixpoint ==
    pc = "reduce" =>
        /\ Len(rets) >= 2 => rets[2] = FALSE
        /\ (rets # <<>> /\ rets[Len(rets)] = FALSE) =>
              2 * Abs(Dot(u.vec, w.vec)) <= w.norm
        /\ (Len(rets) >= 2 /\ rets[Len(rets) - 1] = FALSE) =>
              rets[Len(rets)] = FALSE /\ u = u0

\* a first call that reduced, the call that found the fixpoint, and one more
C9_Witness ==
    /\ pc = "reduce"
    /\ rets = <<TRUE, FALSE, FALSE>>
    /\ u = u0

\* C10: r = B * c satisfies r[i] = sum over j of B[j][i] * c[j]: c is read
\* as the coefficients of the basis vectors.
C10_BasisProduct ==
    pc = "mul" /\ coef # <<>> =>
        \A i \in 1..Len(prod.vec) : prod.vec[i] = CombCoord(b, coef, i, 1)

\* C11: with the basis norms populated, every vector of l, of s and of res
\* (and the candidate v) has norm = <v,v> of its current coordinates: the
\* product B * c sets it and a successful Gauss reduction refreshes it.
Coherent(x) == x.norm = Dot(x.vec, x.vec)

C11_NormCoherent ==
    pc \in {"new", "loop", "done"} =>
        /\ \A i \in 1..Len(l) : Coherent(l[i])
        /\ \A i \in 1..Len(s) : Coherent(s[i])
        /\ \A i \in 1..Len(res) : Coherent(res[i])
        /\ Coherent(v)

\* an element reduced in step 4 waits on the stack while the sampled vector
\* that reduced it is in l
C11_Witness ==
    /\ pc = "loop"
    /\ s # <<>>
    /\ \A i \in 1..Len(b) : s[Len(s)].vec # b[i].vec
    /\ \E i \in 1..Len(l) : l[i] = v /\ \A j \in 1..Len(b) : v.vec # b[j].vec

\* C12: for every full-rank integer basis of m vectors of dimension n with
\* m <= n (m < n included), the vectors gso() returns are pairwise
\* orthogonal in exact arithmetic.
C12_GsoOrthogonal ==
    gs # <<>> =>
        \A i \in 1..Len(gs) : \A j \in 1..Len(gs) :
            i # j => RDot(gs[i].vec, gs[j].vec) = RInt(0)

\* C13: gso() starts gs[i] as B[i], takes from it multiples of the earlier
\* gs[j] (j < i) and closes the row with gs[i].norm = <gs[i],gs[i]>; so a
\* pairwise orthogonal basis (the identity) comes back unchanged, and for
\* B = [[1,1,0],[1,2,0],[0,1,2]] the norms add up to exactly 6.5.  The
\* multiples are stated for bases with as many vectors as coordinates.
Square(B) == Len(B) = Len(B[1].vec)

Orthogonal(B) ==
    \A i \in 1..Len(B) : \A j \in 1..Len(B) :
        i # j => Dot(B[i].vec, B[j].vec) = 0

\* the projection coefficient of B[i] on gs[j]
Proj(i, j) == RDiv(MixDot(b[i].vec, gs[j].vec), RDot(gs[j].vec, gs[j].vec))

\* coordinate k of the sum of the projections of B[i] on gs[1..j]
RECURSIVE ProjSum(_, _, _)
ProjSum(i, k, j) ==
    IF j = 0 THEN RInt(0)
    ELSE RAdd(RMul(Proj(i, j), gs[j].vec[k]), ProjSum(i, k, j - 1))

RECURSIVE NormSum(_)
NormSum(i) == IF i = 0 THEN RInt(0) ELSE RAdd(gs[i].norm, NormSum(i - 1))

C15_SeedsPopulated ==
    /\ pc = "new" =>
           /\ l = <<>>
           /\ Len(s) = Len(b)
           /\ \A i \in 1..Len(s) :
                  s[i].vec = b[i].vec /\ s[i].norm = Dot(s[i].vec, s[i].vec)
    /\ pc = "abort" => v.norm # None

\* C16: the inner product aborts when its operands have different lengths or
\* are empty, and B * c aborts when c has not as many entries as B has
\* vectors; an abort returns no vector and leaves no sieve result.
C16_Step ==
    /\ pc = "dot" =>
           IF Len(u.vec) = Len(w.vec) /\ Len(u.vec) > 0
           THEN pc' = "dot_ret" /\ inner'.ok
           ELSE pc' = "abort" /\ inner' = NoIp
    /\ (pc = "bmul" /\ Len(coef) # Len(b)) => pc' = "abort"
    /\ (pc = "loop" /\ s = <<>> /\ Len(b) # Len(b[1].vec)) => pc' # "loop"
    /\ pc' = "abort" => prod' = NoVec /\ res' = <<>>

C16_Aborts == [][C16_Step]_vars

\* the inner product of two empty vectors was called and aborted
C16_Witness == pc = "abort" /\ u # NoVec /\ u.vec = <<>> /\ w.vec = <<>>

\* C17: c starts at 0 and grows by exactly 1 in exactly the iterations whose
\* candidate has norm 0 after the reduction; ml never decreases and after an
\* iteration is the larger of its old value and the length of l; the loop
\* takes another iteration exactly when c < 0.1 * ml + 200 and returns at the
\* first iteration end where that fails.
C17_Step ==
    /\ pc = "new" => c' = 0 /\ ml' = Len(l) /\ pc' = "loop"
    /\ pc = "loop" =>
           IF 10 * c < ml + 2000
           THEN /\ pc' = "loop"
                /\ c' = IF v'.norm = 0 THEN c + 1 ELSE c
                /\ ml' >= ml
                /\ ml' >= Len(l')
                /\ ml' = ml \/ ml' = Len(l')
           ELSE pc' = "done" /\ c' = c /\ ml' = ml

C17_Counters == [][C17_Step]_vars

\* collisions have been counted, and l was once longer than it is now
C17_Witness == pc = "loop" /\ c > 0 /\ ml > Len(l)

\* C18: in an iteration whose candidate v ends with a non-zero norm, v is
\* inserted at some index of l; every later element that v reduces leaves l
\* and its reduced form is pushed on s exactly once, in list order; the
\* elements before index and the later elements v does not reduce stay in l,
\* unchanged and in their order.  When v ends with norm 0, l is unchanged
\* and s is unchanged apart from the pop that produced the candidate.
ReducedBy(x, y) == y.norm < Abs(2 * Dot(x.vec, y.vec))

C18_Step ==
    (pc = "loop" /\ pc' = "loop") =>
        LET base == IF s # <<>> THEN SubSeq(s, 1, Len(s) - 1) ELSE s
        IN IF v'.norm = 0
           THEN l' = l /\ s' = base
           ELSE \E index \in 0..Len(l) :
                   LET later == SubSeq(l, index + 1, Len(l))
                       kept  == SelectSeq(later, LAMBDA x : ~ReducedBy(x, v'))
                       moved == SelectSeq(later, LAMBDA x : ReducedBy(x, v'))
                   IN /\ l' = SubSeq(l, 1, index) \o <<v'>> \o kept
                      /\ s' = base \o [i \in 1..Len(moved) |->
                                          GaussReduce(moved[i], v').u]

C18_TailFrame == [][C18_Step]_vars

\* the candidate sits in l before an element it did not reduce, and an
\* element it reduced waits on the stack
C18_Witness ==
    /\ pc = "loop"
    /\ v.norm # 0
    /\ \E i \in 1..(Len(l) - 1) : l[i] = v
    /\ s # <<>>
    /\ \A i \in 1..Len(b) : s[Len(s)].vec # b[i].vec

\* C19: list-reduce terminates on every list of non-zero vectors with correct
\* norms and every candidate: a pass of the scan that asks for another pass
\* has strictly decreased the non-negative norm of v, and no pass increases
\* it; every step of the tail loop leaves one element fewer to visit.
C19_Step ==
    /\ pc = "scan" => v'.norm >= 0 /\ v'.norm <= v.norm
    /\ (pc = "scan" /\ pc' = "scan") => v'.norm < v.norm
    /\ (pc = "tail" /\ pc' = "tail") => Len(l') - idx' = Len(l) - idx - 1
    /\ pc = "tail" => idx <= Len(l)

C19_Terminates == [][C19_Step]_vars

\* list-reduce has returned after moving an element of l to the stack
C19_Witness == pc = "ret" /\ s # <<>> /\ Len(l) >= 2

====
